---- MODULE Spec2Model ----
(***************************************************************************)
(* A model of the OCR catalog pipeline: the catalog document and its       *)
(* load/save, the two ingestion loops of the repository                    *)
(* (CacheManager.process_new_images and GeminiFlash.__refresh_cache), the  *)
(* response parser and the resolver.                                       *)
(***************************************************************************)
EXTENDS Integers, Sequences, FiniteSets, TLC

VARIABLES
    impl,            \* which ingestion loop this deployment runs: "CM" or "GF"
    oracle,          \* the extraction capability: Free, or a fixed outcome per file
    pc,              \* position of the process
    cache,           \* the in-memory catalog (an ordered mapping)
    doc,             \* the persisted catalog document (cache.json)
    srcDir,          \* entries of the image folder
    staging,         \* entries of the processed_images folder
    undefinedDir,    \* entries of <image folder>/undefined
    todo,            \* entries of the current listing not yet iterated
    cached_paths,    \* the loop's snapshot of the cached image paths
    files_to_move,   \* the loop's quarantine list
    files_to_remove, \* the loop's list of staging artifacts to delete
    processed_path,  \* CacheManager's local processed_path (Unbound before the first assignment)
    last,            \* the step that produced the current state
    lastSaved,       \* the catalog a load yielded after the last completed save
    extracted,       \* paths the extraction capability was invoked for in this run
    committed,       \* paths committed to the catalog in this run
    prevRun,         \* NoRun, or the catalog and the commits of the previous completed run
    runs,            \* ingestion runs started so far
    ids_to_search,   \* the identifiers of the batch that process_ids has not reached yet
    result_csv       \* the output rows of the batch pipeline

vars == <<impl, oracle, pc, cache, doc, srcDir, staging, undefinedDir, todo,
          cached_paths, files_to_move, files_to_remove, processed_path, last,
          lastSaved, extracted, committed, prevRun, runs, ids_to_search, result_csv>>

(***************************************************************************)
(* Values                                                                  *)
(***************************************************************************)
None == <<"None">>           \* Python's None / JSON null, where an identifier string is expected
Unbound == "<unbound>"       \* a local name that was never assigned
Absent == [exists |-> FALSE, text |-> <<>>]   \* the document does not exist
File(text) == [exists |-> TRUE, text |-> text]

(***************************************************************************)
(* The image folder.  A file name is known by its suffix and by whether    *)
(* it is a directory; image_path = os.path.join(image_folder, filename)    *)
(* is one-to-one with the file name, so the name stands for the path.      *)
(***************************************************************************)
Names == {"a.jpg", "b.JPG", "c.png", "undefined"}

UNDEFINED_TABLES_DIR == "undefined"

\* Path(filename).suffix
Suffix(filename) ==
    CASE filename = "a.jpg" -> ".jpg"
      [] filename = "b.JPG" -> ".JPG"
      [] filename = "c.png" -> ".png"
      [] OTHER -> ""

\* str.lower() on the suffixes that occur
Lower(s) ==
    CASE s = ".JPG" -> ".jpg"
      [] s = ".JPEG" -> ".jpeg"
      [] s = ".PNG" -> ".png"
      [] OTHER -> s

SUPPORTED_IMAGE_EXTENSIONS == {".jpg", ".jpeg"}

\* os.path.isdir(image_path)
IsDir(filename) == filename = UNDEFINED_TABLES_DIR

_is_image_file(filename) == Lower(Suffix(filename)) \in SUPPORTED_IMAGE_EXTENSIONS

InitialFiles == {"a.jpg", "b.JPG"}

(***************************************************************************)
(* The catalog: an ordered mapping (a Python dict), kept as a sequence of  *)
(* entries [key, id, table, image_path] with distinct keys.                *)
(***************************************************************************)
EmptyTable == "{}"
Tables == {EmptyTable, "T"}

\* identifier strings, as sequences of characters
IdX == <<"A", "B", "1", "2">>
IdY == <<"C", "D", "3", "4">>

Keys(c) == {c[i].key : i \in DOMAIN c}

IndexOf(c, k) == CHOOSE i \in DOMAIN c : c[i].key = k

\* dict.__setitem__: a present key keeps its position, a new key goes last
SetItem(c, k, rec) ==
    IF k \in Keys(c)
    THEN [c EXCEPT ![IndexOf(c, k)] = rec]
    ELSE Append(c, rec)

\* CacheManager.add_to_cache; GeminiFlash.__refresh_cache lines 285-286
add_to_cache(c, id_value, data, image_path) ==
    SetItem(c, id_value,
            [key |-> id_value, id |-> data.id, table |-> data.table,
             image_path |-> image_path])

get_cached_paths_none(c) == {}

\* CacheManager.get_cached_paths; GeminiFlash.__refresh_cache lines 244-245
get_cached_paths(c) == {c[i].image_path : i \in DOMAIN c}

(***************************************************************************)
(* The catalog document.  json.dump writes "{", one member per entry and   *)
(* "}"; a key that is None is written as the string "null".  A document is *)
(* a sequence of these tokens; an interrupted write leaves a prefix.       *)
(***************************************************************************)
\* json's conversion of a dict key
JsonKey(k) == IF k = None THEN <<"n", "u", "l", "l">> ELSE k

LBrace == [tok |-> "{"]
RBrace == [tok |-> "}"]

json_dump(c) ==
    <<LBrace>> \o [i \in DOMAIN c |-> [c[i] EXCEPT !.key = JsonKey(c[i].key)]] \o <<RBrace>>

\* json.load accepts the text: an object, complete
WellFormed(text) ==
    /\ Len(text) >= 2
    /\ text[1] = LBrace
    /\ text[Len(text)] = RBrace
    /\ \A i \in 2..(Len(text) - 1) : text[i] \notin {LBrace, RBrace}

RECURSIVE FromMembers(_, _)
FromMembers(members, acc) ==
    IF members = <<>> THEN acc
    ELSE FromMembers(Tail(members), SetItem(acc, Head(members).key, Head(members)))

\* json.load on a well-formed document: members in order, a repeated key
\* keeps its first position and its last value
json_load(text) == FromMembers(SubSeq(text, 2, Len(text) - 1), <<>>)

_load_cache_partial(d) ==
    IF d.exists
    THEN FromMembers(SelectSeq(d.text, LAMBDA t : t \notin {LBrace, RBrace}), <<>>)
    ELSE <<>>

\* CacheManager._load_cache; GeminiFlash.__init__ lines 113-122:
\* FileNotFoundError and JSONDecodeError both give an empty catalog
_load_cache(d) == IF d.exists /\ WellFormed(d.text) THEN json_load(d.text) ELSE <<>>

\* what an interrupted write of text leaves: the truncated file, or the text
\* short of its end (every proper prefix fails to load in the same way)
PartialWrites(text) == {<<>>, SubSeq(text, 1, Len(text) - 1)}

(***************************************************************************)
(* The extraction response and its parser.  A response text is a sequence  *)
(* of pieces: the fence markers, JSON texts and prose.                     *)
(***************************************************************************)
\* the marker texts of the parser (a code fence opening with the word json, and a closing fence)
start_marker == [piece |-> "fence json"]
end_marker == [piece |-> "fence"]
Prose == [piece |-> "prose"]

JNull == [piece |-> "json", value |-> "null"]
\* a JSON object: with "id" and "table", without "table", without "id"
JObject(i, t) ==
    [piece |-> "json", value |-> "object", has_id |-> TRUE, has_table |-> TRUE, id |-> i, table |-> t]
JNoTable(i) ==
    [piece |-> "json", value |-> "object", has_id |-> TRUE, has_table |-> FALSE, id |-> i,
     table |-> EmptyTable]
JNoId(t) ==
    [piece |-> "json", value |-> "object", has_id |-> FALSE, has_table |-> TRUE, id |-> None,
     table |-> t]

IsJson(piece) == piece.piece = "json"

\* the parser's failure value (Python None)
ParseFailure == [piece |-> "None"]

Responses ==
    { <<JObject(IdX, "T")>>,
      <<start_marker, JObject(IdY, "T"), end_marker>>,
      <<JObject(IdX, EmptyTable)>>,
      <<start_marker, JObject(None, "T"), end_marker>>,
      <<JNoTable(IdX)>>,
      <<JNoId(EmptyTable)>>,
      <<JNull>>,
      <<Prose, JObject(IdY, "T"), end_marker>> }

StripStart(r) == IF r # <<>> /\ Head(r) = start_marker THEN Tail(r) ELSE r
StripEnd(r) == IF r # <<>> /\ r[Len(r)] = end_marker THEN SubSeq(r, 1, Len(r) - 1) ELSE r

\* json.loads raises JSONDecodeError unless the text is exactly one JSON value
Decodes(text) == Len(text) = 1 /\ IsJson(text[1])

clean_json_response_lenient(response) ==
    LET jsons == SelectSeq(response, IsJson)
    IN  IF jsons # <<>> THEN jsons[1] ELSE ParseFailure

\* DataProcessor.clean_json_response; Utils.clean_json_response
clean_json_response(response) ==
    LET cleaned == StripEnd(StripStart(response))
    IN  IF Decodes(cleaned) THEN cleaned[1] ELSE ParseFailure

\* "not content": None (a failed parse, or the JSON text null) is falsy
Falsy(content) == content = ParseFailure \/ content.value = "null"

(***************************************************************************)
(* What one image can do to the loop: Image.open / process_image raising,  *)
(* the save of the staging artifact raising, generate_content raising, or  *)
(* a response text.                                                        *)
(***************************************************************************)
OpenError == [kind |-> "open_error"]
SaveError == [kind |-> "save_error"]
ExtractError == [kind |-> "extract_error"]
Response(text) == [kind |-> "response", text |-> text]

Outcomes == {OpenError, SaveError, ExtractError} \cup {Response(r) : r \in Responses}

\* the outcomes the extraction capability and the filesystem can give for a file
OutcomesOf(f) == IF oracle.free THEN Outcomes ELSE {oracle.answer[f]}

NoStep == [op |-> "none", file |-> "", outcome |-> [kind |-> "none"]]
Step(op, f, o) == [op |-> op, file |-> f, outcome |-> o]

NoRun == [valid |-> FALSE, catalog |-> <<>>, committed |-> {}]

(***************************************************************************)
(* The body of one loop iteration for an eligible file, as a result record:*)
(* what it leaves in the catalog, the staging folder and the loop's lists, *)
(* and whether an exception left the loop.                                 *)
(***************************************************************************)
Parsed(o) == IF o.kind = "response" THEN clean_json_response(o.text) ELSE ParseFailure

\* content['table'] raises KeyError
MissingField(content) == ~Falsy(content) /\ ~content.has_table

\* "not content['table']"
TableEmpty(content) ==
    ~Falsy(content) /\ content.has_table /\ content.table = EmptyTable

\* content['id'] raises KeyError, after the table was read
MissingId(content) == ~Falsy(content) /\ content.has_table /\ ~content.has_id

\* the iteration reaches the catalog update
Commits(content, c) ==
    /\ ~Falsy(content)
    /\ content.has_table
    /\ content.has_id
    /\ (content.table = EmptyTable => content.id \notin Keys(c))

\* list.append, n times
Appended(list, x, n) ==
    IF n = 0 THEN list ELSE IF n = 1 THEN Append(list, x) ELSE Append(Append(list, x), x)

\* CacheManager.process_new_images, lines 161-193
process_new_images_body(f, o) ==
    LET content == Parsed(o)
        \* processed_path is assigned on line 165, after open and normalize
        path == IF o.kind = "open_error" THEN processed_path ELSE f
        raised == o.kind # "response" \/ MissingField(content) \/ MissingId(content)
        \* the appends of lines 176-177 and 182-183, and those of the handler
        marks == (IF Falsy(content) /\ ~raised THEN 1 ELSE 0)
                 + (IF TableEmpty(content) THEN 1 ELSE 0)
                 + (IF raised THEN 1 ELSE 0)
        commit == ~raised /\ Commits(content, cache)
        \* the handler reads processed_path: UnboundLocalError when never assigned
        escaped == raised /\ path = Unbound
    IN  [ cache |-> IF commit THEN add_to_cache(cache, content.id, content, f) ELSE cache,
          staging |-> IF o.kind \in {"extract_error", "response"}
                      THEN staging \cup {f} ELSE staging,
          processed_path |-> path,
          files_to_move |-> Appended(files_to_move, f, marks),
          files_to_remove |-> IF escaped THEN files_to_remove
                              ELSE Appended(files_to_remove, path, marks),
          extracted |-> o.kind \in {"extract_error", "response"},
          committed |-> commit,
          escaped |-> escaped ]

\* GeminiFlash.__refresh_cache, lines 261-286: no handler around the body
refresh_cache_body(f, o) ==
    LET content == Parsed(o)
        raised == o.kind # "response" \/ MissingField(content) \/ MissingId(content)
        marks == IF ~raised /\ (Falsy(content) \/ TableEmpty(content)) THEN 1 ELSE 0
        commit == ~raised /\ Commits(content, cache)
    IN  [ cache |-> IF commit THEN add_to_cache(cache, content.id, content, f) ELSE cache,
          staging |-> staging,
          processed_path |-> processed_path,
          files_to_move |-> Appended(files_to_move, f, marks),
          files_to_remove |-> Appended(files_to_remove, f, marks),
          extracted |-> o.kind \in {"extract_error", "response"},
          committed |-> commit,
          escaped |-> raised ]

(***************************************************************************)
(* Identifier strings: the normalizer (clean_id) and the similarity score. *)
(* A string is a sequence of one-character strings.                        *)
(***************************************************************************)
Letters == {"A", "B", "C", "D", "E", "F", "G", "I", "N", "P", "Q", "R", "T", "V", "X",
            "l", "n", "s", "u"}
Digits == {"0", "1", "2", "3", "4", "5", "6", "7", "8", "9"}

IsLetter(ch) == ch \in Letters
IsDigit(ch) == ch \in Digits
IsAlnum(ch) == IsLetter(ch) \/ IsDigit(ch)

Min(a, b) == IF a <= b THEN a ELSE b
Max(a, b) == IF a >= b THEN a ELSE b

\* s[:n]
Take(s, n) == SubSeq(s, 1, Min(n, Len(s)))

\* pat occurs in s at position i
OccursAt(s, i, pat) ==
    /\ i + Len(pat) - 1 <= Len(s)
    /\ \A k \in 1..Len(pat) : s[i + k - 1] = pat[k]

\* str.replace(pat, ""), from position i on
RECURSIVE RemoveAllFrom(_, _, _)
RemoveAllFrom(s, i, pat) ==
    IF i > Len(s) THEN <<>>
    ELSE IF OccursAt(s, i, pat) THEN RemoveAllFrom(s, i + Len(pat), pat)
    ELSE <<s[i]>> \o RemoveAllFrom(s, i + 1, pat)

\* the position where the group opened before position j closes, depth
\* parentheses being open at j; 0 when it never closes
RECURSIVE CloseFrom(_, _, _)
CloseFrom(s, j, depth) ==
    IF j > Len(s) THEN 0
    ELSE IF s[j] = "(" THEN CloseFrom(s, j + 1, depth + 1)
    ELSE IF s[j] = ")" THEN (IF depth = 1 THEN j ELSE CloseFrom(s, j + 1, depth - 1))
    ELSE CloseFrom(s, j + 1, depth)

\* the end of a match of \((?:[^()]|(?R))*\) at position i, or 0
GroupEnd(s, i) == IF s[i] = "(" THEN CloseFrom(s, i + 1, 1) ELSE 0

\* regex.sub(r'\((?:[^()]|(?R))*\)', "", s), from position i on
RECURSIVE StripGroupsFrom(_, _)
StripGroupsFrom(s, i) ==
    IF i > Len(s) THEN <<>>
    ELSE IF GroupEnd(s, i) # 0 THEN StripGroupsFrom(s, GroupEnd(s, i) + 1)
    ELSE <<s[i]>> \o StripGroupsFrom(s, i + 1)

StripGroups(s) == StripGroupsFrom(s, 1)

\* regex.findall(r'\((?:[^()]|(?R))*\)', s), from position i on
RECURSIVE FindGroupsFrom(_, _)
FindGroupsFrom(s, i) ==
    IF i > Len(s) THEN <<>>
    ELSE IF GroupEnd(s, i) # 0
    THEN <<SubSeq(s, i, GroupEnd(s, i))>> \o FindGroupsFrom(s, GroupEnd(s, i) + 1)
    ELSE FindGroupsFrom(s, i + 1)

Virtex == <<"V", "I", "R", "T", "E", "X", "-">>

\* the first position >= j holding ch, or 0
RECURSIVE FirstAt(_, _, _)
FirstAt(s, j, ch) ==
    IF j > Len(s) THEN 0
    ELSE IF s[j] = ch THEN j
    ELSE FirstAt(s, j + 1, ch)

\* the last position of the run of ch that starts at j (j - 1 when there is none)
RECURSIVE RunEnd(_, _, _)
RunEnd(s, j, ch) ==
    IF j <= Len(s) /\ s[j] = ch THEN RunEnd(s, j + 1, ch) ELSE j - 1

\* the end of a match of VIRTEX-.*?:s* at position i, or 0
VirtexEnd(s, i) ==
    IF OccursAt(s, i, Virtex) /\ FirstAt(s, i + Len(Virtex), ":") # 0
    THEN RunEnd(s, FirstAt(s, i + Len(Virtex), ":") + 1, "s")
    ELSE 0

KeepVirtexFrom(s, i) == SubSeq(s, i, Len(s))

\* re.sub(r"VIRTEX-.*?:s*", "", s), from position i on
RECURSIVE StripVirtexFrom(_, _)
StripVirtexFrom(s, i) ==
    IF i > Len(s) THEN <<>>
    ELSE IF VirtexEnd(s, i) # 0 THEN StripVirtexFrom(s, VirtexEnd(s, i) + 1)
    ELSE <<s[i]>> \o StripVirtexFrom(s, i + 1)

clean_id_last_letters(id_value) ==
    LET id == RemoveAllFrom(id_value, 1, <<"(", "G", ")">>)
        stripped_id == StripGroups(id)
        letters == SelectSeq(stripped_id, IsLetter)
        digits == SelectSeq(stripped_id, IsDigit)
        bracket_match == FindGroupsFrom(id, 1)
        TakeLast(s, n) == SubSeq(s, Max(1, Len(s) - n + 1), Len(s))
    IN  IF Len(letters) >= 2 /\ Len(digits) >= 4
        THEN IF bracket_match # <<>>
             THEN TakeLast(letters, 2) \o Take(digits, 4) \o <<" ">>
                  \o StripVirtexFrom(bracket_match[Len(bracket_match)], 1)
             ELSE TakeLast(letters, 2) \o Take(digits, 4)
        ELSE IF Len(letters) >= 2 THEN TakeLast(letters, 2) \o digits
        ELSE IF Len(digits) >= 4 THEN letters \o Take(digits, 4)
        ELSE id

\* Utils.clean_id; DataProcessor.clean_id
clean_id(id_value) ==
    LET id == RemoveAllFrom(id_value, 1, <<"(", "G", ")">>)
        stripped_id == StripGroups(id)
        letters == SelectSeq(stripped_id, IsLetter)
        digits == SelectSeq(stripped_id, IsDigit)
        bracket_match == FindGroupsFrom(id, 1)
    IN  IF Len(letters) >= 2 /\ Len(digits) >= 4
        THEN IF bracket_match # <<>>
             THEN Take(letters, 2) \o Take(digits, 4) \o <<" ">>
                  \o StripVirtexFrom(bracket_match[Len(bracket_match)], 1)
             ELSE Take(letters, 2) \o Take(digits, 4)
        ELSE IF Len(letters) >= 2 THEN Take(letters, 2) \o digits
        ELSE IF Len(digits) >= 4 THEN letters \o Take(digits, 4)
        ELSE id

\* the length of a longest common subsequence
RECURSIVE LCS(_, _)
LCS(a, b) ==
    IF a = <<>> \/ b = <<>> THEN 0
    ELSE IF Head(a) = Head(b) THEN 1 + LCS(Tail(a), Tail(b))
    ELSE Max(LCS(Tail(a), b), LCS(a, Tail(b)))

\* rapidfuzz fuzz.ratio: 100 * 2 * LCS / (len1 + len2), 100 for two empty
\* strings; kept as the pair <<numerator, denominator>> of the percentage
ratio(a, b) ==
    IF Len(a) + Len(b) = 0 THEN <<100, 1>>
    ELSE <<200 * LCS(a, b), Len(a) + Len(b)>>

\* score >= threshold
AtLeast(score, threshold) == score[1] >= threshold * score[2]

\* score1 > score2
Greater(score1, score2) == score1[1] * score2[2] > score2[1] * score1[2]

\* Utils.similarity_score; SimilarityMatcher.similarity_score
similarity_score(code_1, code_2) ==
    ratio(SelectSeq(code_1, IsAlnum), SelectSeq(code_2, IsAlnum))

\* Raw identifiers for the normalizer: a letter prefix, a marker or a
\* parenthetical group, digits, and a trailing group
IdPrefixes == {<<>>, <<"F">>, <<"F", "F">>, <<"A", "B">>}
IdMarkers == {<<>>, <<"(", "G", ")">>, <<"(", "C", "D", ")">>, <<"(", "G", ")", "/", "E", "F">>}
IdDigits == {<<>>, <<"1", "2">>, <<"1", "1", "5", "2">>, <<"1", "1", "5", "2", "3">>}
IdSuffixes == {<<>>, <<" ", "(", "V", "I", "R", "T", "E", "X", "-", "4", ":", " ", "X", "Q", "4", "V", "F", "X", "1", "0", "0", ")">>, <<"(", "X", "(", "Q", ")", "1", ")">>,
               <<"(", "(", "G", ")", "G", ")">>}

RawIds ==
    {p \o m \o d \o x : p \in IdPrefixes, m \in IdMarkers, d \in IdDigits, x \in IdSuffixes}

\* one call of the normalizer on the identifier the state holds
clean_id_call ==
    /\ last.op = "input"
    /\ last' = Step("clean", "",
                    [kind |-> "cleaned", id |-> last.outcome.id,
                     result |-> clean_id(last.outcome.id)])
    /\ UNCHANGED <<impl, oracle, pc, cache, doc, srcDir, staging, undefinedDir, todo,
                   cached_paths, files_to_move, files_to_remove, processed_path,
                   lastSaved, extracted, committed, prevRun, runs, ids_to_search, result_csv>>

\* a second call of the normalizer, on the result of the first
clean_id_again ==
    /\ last.op = "clean"
    /\ last' = Step("clean_again", "",
                    [kind |-> "cleaned", id |-> last.outcome.result,
                     result |-> clean_id(last.outcome.result)])
    /\ UNCHANGED <<impl, oracle, pc, cache, doc, srcDir, staging, undefinedDir, todo,
                   cached_paths, files_to_move, files_to_remove, processed_path,
                   lastSaved, extracted, committed, prevRun, runs, ids_to_search, result_csv>>

(***************************************************************************)
(* The process                                                             *)
(***************************************************************************)
Locals == <<todo, cached_paths, files_to_move, files_to_remove, processed_path>>
History == <<extracted, committed, prevRun, lastSaved, runs, ids_to_search, result_csv>>

MaxRuns == 2

\* the run history is kept for a deterministic extraction capability, where
\* two runs can be compared
Recorded(before, after) == IF oracle.free THEN before ELSE after
Folders == <<srcDir, staging, undefinedDir>>

ResetLocals ==
    /\ todo' = {}
    /\ cached_paths' = {}
    /\ files_to_move' = <<>>
    /\ files_to_remove' = <<>>
    /\ processed_path' = Unbound

\* the catalog and the commits of a run that ran to its end
RunRecord == [valid |-> TRUE, catalog |-> cache, committed |-> committed]

\* CacheManager.__init__ / GeminiFlash.__init__: the catalog is loaded
Boot ==
    /\ pc = "off"
    /\ pc' = "ready"
    /\ cache' = _load_cache(doc)
    /\ last' = Step("boot", "", [kind |-> "none"])
    /\ UNCHANGED <<impl, oracle, doc, Folders, Locals, History>>

\* CacheManager.process_new_images, lines 143-149
process_new_images ==
    /\ impl = "CM"
    /\ pc \in {"ready", "idle"}
    /\ runs < MaxRuns
    /\ runs' = runs + 1
    /\ UNCHANGED <<ids_to_search, result_csv>>
    /\ pc' = "scan"
    /\ srcDir' = srcDir \cup {UNDEFINED_TABLES_DIR}
    /\ cached_paths' = get_cached_paths(cache)
    /\ files_to_move' = <<>>
    /\ files_to_remove' = <<>>
    /\ processed_path' = Unbound
    /\ todo' = srcDir'
    /\ extracted' = {}
    /\ committed' = {}
    /\ prevRun' = IF pc = "idle" THEN Recorded(prevRun, RunRecord) ELSE prevRun
    /\ last' = Step("start", "", [kind |-> "none"])
    /\ UNCHANGED <<impl, oracle, cache, doc, staging, undefinedDir, lastSaved>>

\* CacheManager.process_new_images, lines 152-193: one iteration of the scan.
\* An exception that leaves the handler ends the call, and its locals with it
process_new_images_iterate(f) ==
    /\ impl = "CM"
    /\ pc = "scan"
    /\ f \in todo
    /\ IF ~_is_image_file(f) \/ IsDir(f) \/ f \in cached_paths
       THEN /\ last' = Step("skip", f, [kind |-> "none"])
            /\ todo' = todo \ {f}
            /\ UNCHANGED <<pc, cache, staging, processed_path, files_to_move,
                           files_to_remove, cached_paths, extracted, committed>>
       ELSE \E o \in OutcomesOf(f) :
              LET r == process_new_images_body(f, o)
              IN  /\ cache' = r.cache
                  /\ staging' = r.staging
                  /\ extracted' = IF r.extracted THEN Recorded(extracted, extracted \cup {f})
                                  ELSE extracted
                  /\ committed' = IF r.committed THEN Recorded(committed, committed \cup {f})
                                  ELSE committed
                  /\ last' = Step("image", f, o)
                  /\ IF r.escaped
                     THEN pc' = "failed" /\ ResetLocals
                     ELSE /\ pc' = "scan"
                          /\ todo' = todo \ {f}
                          /\ processed_path' = r.processed_path
                          /\ files_to_move' = r.files_to_move
                          /\ files_to_remove' = r.files_to_remove
                          /\ UNCHANGED cached_paths
    /\ UNCHANGED <<impl, oracle, doc, srcDir, undefinedDir, prevRun, lastSaved, runs, ids_to_search, result_csv>>

\* GeminiFlash.__refresh_cache, lines 225-232
refresh_cache ==
    /\ impl = "GF"
    /\ pc = "ready"
    /\ runs < MaxRuns
    /\ runs' = runs + 1
    /\ UNCHANGED <<ids_to_search, result_csv>>
    /\ pc' = "prep"
    /\ todo' = srcDir
    /\ cached_paths' = {}
    /\ files_to_move' = <<>>
    /\ files_to_remove' = <<>>
    /\ extracted' = {}
    /\ committed' = {}
    /\ last' = Step("start", "", [kind |-> "none"])
    /\ UNCHANGED <<impl, oracle, cache, doc, Folders, processed_path, prevRun, lastSaved>>

\* GeminiFlash.__refresh_cache, lines 234-242: one iteration of the staging loop
refresh_cache_stage(f) ==
    /\ impl = "GF"
    /\ pc = "prep"
    /\ f \in todo
    /\ IF f \in staging \/ IsDir(f)
       THEN /\ last' = Step("stage_skip", f, [kind |-> "none"])
            /\ todo' = todo \ {f}
            /\ UNCHANGED <<pc, staging>>
       ELSE \E o \in OutcomesOf(f) :
              /\ last' = Step("stage", f, [kind |-> IF o.kind \in {"open_error", "save_error"}
                                                     THEN o.kind ELSE "staged"])
              /\ IF o.kind \in {"open_error", "save_error"}
                 THEN pc' = "failed" /\ staging' = staging /\ todo' = {}
                 ELSE pc' = "prep" /\ staging' = staging \cup {f} /\ todo' = todo \ {f}
    /\ UNCHANGED <<impl, oracle, cache, doc, srcDir, undefinedDir, cached_paths,
                   files_to_move, files_to_remove, processed_path, History>>

\* GeminiFlash.__refresh_cache, lines 244-250
refresh_cache_scan ==
    /\ impl = "GF"
    /\ pc = "prep"
    /\ todo = {}
    /\ pc' = "scan"
    /\ cached_paths' = get_cached_paths(cache)
    /\ srcDir' = srcDir \cup {UNDEFINED_TABLES_DIR}
    /\ files_to_move' = <<>>
    /\ files_to_remove' = <<>>
    /\ todo' = staging
    /\ last' = Step("scan", "", [kind |-> "none"])
    /\ UNCHANGED <<impl, oracle, cache, doc, staging, undefinedDir, processed_path, History>>

\* GeminiFlash.__refresh_cache, lines 251-286: one iteration of the scan,
\* up to the catalog update; the save that follows is save_open / save_dump
refresh_cache_iterate(f) ==
    /\ impl = "GF"
    /\ pc = "scan"
    /\ f \in todo
    /\ IF f \in cached_paths
       THEN /\ last' = Step("skip", f, [kind |-> "none"])
            /\ todo' = todo \ {f}
            /\ UNCHANGED <<pc, cache, files_to_move, files_to_remove, cached_paths,
                           extracted, committed>>
       ELSE \E o \in {x \in OutcomesOf(f) : x.kind # "save_error"} :
              LET r == refresh_cache_body(f, o)
              IN  /\ cache' = r.cache
                  /\ extracted' = IF r.extracted THEN Recorded(extracted, extracted \cup {f})
                                  ELSE extracted
                  /\ committed' = IF r.committed THEN Recorded(committed, committed \cup {f})
                                  ELSE committed
                  /\ last' = Step("image", f, o)
                  /\ IF r.escaped
                     THEN /\ pc' = "failed"
                          /\ todo' = {}
                          /\ files_to_move' = <<>>
                          /\ files_to_remove' = <<>>
                          /\ cached_paths' = {}
                     ELSE /\ pc' = IF r.committed THEN "save" ELSE "scan"
                          /\ todo' = todo \ {f}
                          /\ files_to_move' = r.files_to_move
                          /\ files_to_remove' = r.files_to_remove
                          /\ UNCHANGED cached_paths
    /\ UNCHANGED <<impl, oracle, doc, Folders, processed_path, prevRun, lastSaved, runs, ids_to_search, result_csv>>

\* shutil.move of each file of the list in turn into the "undefined" folder;
\* it raises when the source is gone or the name is taken in the target
RECURSIVE MoveAll(_, _, _)
MoveAll(list, src, target) ==
    IF list = <<>> THEN [raised |-> FALSE, src |-> src, target |-> target]
    ELSE IF Head(list) \notin src \/ Head(list) \in target
    THEN [raised |-> TRUE, src |-> src, target |-> target]
    ELSE MoveAll(Tail(list), src \ {Head(list)}, target \cup {Head(list)})

\* os.remove of each file of the list in turn; it raises on a missing file
\* unless guarded by os.path.exists
RECURSIVE RemoveAll(_, _, _)
RemoveAll(list, dir, guarded) ==
    IF list = <<>> THEN [raised |-> FALSE, dir |-> dir]
    ELSE IF Head(list) \notin dir /\ ~guarded THEN [raised |-> TRUE, dir |-> dir]
    ELSE RemoveAll(Tail(list), dir \ {Head(list)}, guarded)

\* the loop over files_to_move: CacheManager lines 196-197, GeminiFlash lines 297-298
move_files ==
    /\ pc = "scan"
    /\ todo = {}
    /\ LET moved == MoveAll(files_to_move, srcDir, undefinedDir)
       IN  /\ srcDir' = moved.src
           /\ undefinedDir' = moved.target
           /\ IF moved.raised
              THEN pc' = "failed" /\ ResetLocals
              ELSE pc' = "remove" /\ UNCHANGED Locals
    /\ last' = Step("move", "", [kind |-> "none"])
    /\ UNCHANGED <<impl, oracle, cache, doc, staging, History>>

\* the loop over files_to_remove: CacheManager lines 199-201 (guarded by
\* os.path.exists; the save follows), GeminiFlash lines 300-304 (the method
\* returns after the loop)
remove_files ==
    /\ pc = "remove"
    /\ LET removed == RemoveAll(files_to_remove, staging, impl = "CM")
       IN  /\ staging' = removed.dir
           /\ IF removed.raised THEN pc' = "failed" /\ ResetLocals
              ELSE IF impl = "CM" THEN pc' = "save" /\ UNCHANGED Locals
              ELSE pc' = "idle" /\ ResetLocals
    /\ last' = Step("remove", "", [kind |-> "none"])
    /\ UNCHANGED <<impl, oracle, cache, doc, srcDir, undefinedDir, History>>

(***************************************************************************)
(* Writing the document: CacheManager.save_cache, GeminiFlash lines        *)
(* 288-295.  open(path, 'w') truncates the document, json.dump then writes *)
(* it; CacheManager re-raises an IOError, GeminiFlash prints it and goes   *)
(* on with the scan.                                                       *)
(***************************************************************************)
AfterSave == IF impl = "CM" THEN "idle" ELSE "scan"
AfterSaveError == IF impl = "CM" THEN "failed" ELSE "scan"

\* CacheManager's save is the last statement of its run; GeminiFlash's is inside the scan
LocalsAfterSave == IF impl = "CM" THEN ResetLocals ELSE UNCHANGED Locals

save_open ==
    /\ pc = "save"
    /\ pc' = "saving"
    /\ doc' = File(<<>>)
    /\ last' = Step("save_open", "", [kind |-> "none"])
    /\ UNCHANGED <<impl, oracle, cache, Folders, Locals, History>>

save_open_error ==
    /\ pc = "save"
    /\ pc' = AfterSaveError
    /\ LocalsAfterSave
    /\ last' = Step("save_error", "", [kind |-> "none"])
    /\ UNCHANGED <<impl, oracle, cache, doc, Folders, History>>

save_dump ==
    /\ pc = "saving"
    /\ pc' = AfterSave
    /\ doc' = File(json_dump(cache))
    /\ lastSaved' = _load_cache(doc')
    /\ LocalsAfterSave
    /\ last' = Step("saved", "", [kind |-> "none"])
    /\ UNCHANGED <<impl, oracle, cache, Folders, extracted, committed, prevRun, runs, ids_to_search, result_csv>>

save_dump_error ==
    /\ pc = "saving"
    /\ pc' = AfterSaveError
    /\ \E written \in PartialWrites(json_dump(cache)) : doc' = File(written)
    /\ LocalsAfterSave
    /\ last' = Step("save_error", "", [kind |-> "none"])
    /\ UNCHANGED <<impl, oracle, cache, Folders, History>>

\* the process ends: Main.py's run() returns, or re-raises what escaped
Exit ==
    /\ pc \in {"ready", "idle", "failed"}
    /\ pc' = "off"
    /\ cache' = <<>>
    /\ ResetLocals
    /\ prevRun' = IF pc = "idle" THEN Recorded(prevRun, RunRecord)
                   ELSE IF pc = "failed" THEN NoRun ELSE prevRun
    /\ last' = Step("exit", "", [kind |-> "none"])
    /\ UNCHANGED <<impl, oracle, doc, Folders, extracted, committed, lastSaved, runs, ids_to_search, result_csv>>

\* the process is interrupted; inside json.dump it leaves what was written
Interrupt ==
    /\ pc \in {"prep", "scan", "remove", "save", "saving"}
    /\ pc' = "off"
    /\ cache' = <<>>
    /\ ResetLocals
    /\ prevRun' = NoRun
    /\ IF pc = "saving"
       THEN \E written \in PartialWrites(json_dump(cache)) : doc' = File(written)
       ELSE doc' = doc
    /\ last' = Step("interrupt", "", [kind |-> "none"])
    /\ UNCHANGED <<impl, oracle, Folders, extracted, committed, lastSaved, runs, ids_to_search, result_csv>>

(***************************************************************************)
(* The resolver: GeminiFlash.get_similar_id                                *)
(***************************************************************************)
SIMILARITY_THRESHOLD == 85

Raised == [raised |-> TRUE, found |-> <<>>]
Returned(found) == [raised |-> FALSE, found |-> found]

\* GeminiFlash.__fuzz_match_id, lines 205-209: the score of every entry, in catalog order
RECURSIVE ScoresOf(_, _)
ScoresOf(c, target_id) ==
    IF c = <<>> THEN <<>>
    ELSE <<similarity_score(clean_id(Head(c).key), target_id)>> \o ScoresOf(Tail(c), target_id)

\* the first position whose score no position exceeds: the head of the list
\* after the stable sort by score, highest first
BestIndex(scores) ==
    CHOOSE i \in DOMAIN scores :
        /\ \A j \in DOMAIN scores : ~Greater(scores[j], scores[i])
        /\ \A j \in 1..(i - 1) : Greater(scores[i], scores[j])

\* GeminiFlash.__fuzz_match_id; clean_id raises AttributeError on a key that is None
fuzz_match_id(c, target_id) ==
    IF None \in Keys(c) THEN Raised
    ELSE LET scores == ScoresOf(c, target_id)
             best == BestIndex(scores)
         IN  IF AtLeast(scores[best], SIMILARITY_THRESHOLD)
             THEN Returned(<<c[best]>>)
             ELSE Returned(<<>>)

\* what the match-adjudication capability can do: raise, or answer a text
AdjudicationError == [kind |-> "error", text |-> <<>>]
Answer(text) == [kind |-> "text", text |-> text]
NA == <<"N", "A">>

Whitespace == {" "}

\* str.strip()
RECURSIVE strip(_)
strip(text) ==
    IF text = <<>> THEN text
    ELSE IF Head(text) \in Whitespace THEN strip(Tail(text))
    ELSE IF text[Len(text)] \in Whitespace THEN strip(SubSeq(text, 1, Len(text) - 1))
    ELSE text

gemini_match_id_any(c, answer) ==
    IF c = <<>> \/ answer.kind = "error" THEN Returned(<<>>) ELSE Returned(<<c[1]>>)

\* GeminiFlash.__gemini_match_id, lines 143-202
gemini_match_id(c, answer) ==
    IF c = <<>> THEN Returned(<<>>)
    ELSE IF answer.kind = "error" THEN Returned(<<>>)
    ELSE LET derived_id == strip(answer.text)
         IN  IF derived_id \in Keys(c)
             THEN Returned(<<c[IndexOf(c, derived_id)]>>)
             ELSE Returned(<<>>)

Targets == {IdX, <<"A", "B", "1", "3">>}

Adjudications ==
    {AdjudicationError, Answer(NA), Answer(IdX), Answer(<<" ">> \o IdY \o <<" ">>),
     Answer(<<"n", "u", "l", "l">>)}

get_similar_id_asks_first(target_id) ==
    /\ pc \in {"ready", "idle"}
    /\ \E answer \in Adjudications :
         LET fuzzy == IF cache # <<>> THEN fuzz_match_id(cache, target_id) ELSE Returned(<<>>)
         IN  /\ pc' = IF fuzzy.raised THEN "failed" ELSE pc
             /\ last' = Step("resolve", "",
                             [kind |-> "resolved", target |-> target_id,
                              raised |-> fuzzy.raised,
                              found |-> IF fuzzy.found # <<>> THEN fuzzy.found
                                        ELSE gemini_match_id(cache, answer).found,
                              asked |-> <<answer>>])
    /\ UNCHANGED <<impl, oracle, cache, doc, Folders, Locals, History>>

\* GeminiFlash.get_similar_id
get_similar_id(target_id) ==
    /\ pc \in {"ready", "idle"}
    /\ LET fuzzy == IF cache # <<>> THEN fuzz_match_id(cache, target_id) ELSE Returned(<<>>)
       IN  IF fuzzy.raised \/ fuzzy.found # <<>> \/ cache = <<>>
           THEN /\ pc' = IF fuzzy.raised THEN "failed" ELSE pc
                /\ last' = Step("resolve", "",
                                [kind |-> "resolved", target |-> target_id,
                                 raised |-> fuzzy.raised, found |-> fuzzy.found,
                                 asked |-> <<>>])
           ELSE \E answer \in Adjudications :
                /\ pc' = pc
                /\ last' = Step("resolve", "",
                                [kind |-> "resolved", target |-> target_id,
                                 raised |-> FALSE,
                                 found |-> gemini_match_id(cache, answer).found,
                                 asked |-> <<answer>>])
    /\ UNCHANGED <<impl, oracle, cache, doc, Folders, Locals, History>>

(***************************************************************************)
(* The similarity matcher: SimilarityMatcher.find_best_match               *)
(***************************************************************************)
\* SimilarityMatcher.similarity_score_stripped; Utils.similarity_score_stripped
similarity_score_stripped(code_1, code_2) ==
    ratio(SelectSeq(StripGroups(code_1), IsAlnum), SelectSeq(StripGroups(code_2), IsAlnum))

\* lines 86-98: one tuple per entry, in catalog order
RECURSIVE best_matches(_, _)
best_matches(c, target_id) ==
    IF c = <<>> THEN <<>>
    ELSE <<[entry |-> Head(c),
            score |-> similarity_score(clean_id(Head(c).key), target_id),
            stripped |-> similarity_score_stripped(clean_id(Head(c).key), target_id)]>>
         \o best_matches(Tail(c), target_id)

\* the sort key x[2] or x[3]
KeyOf(x, by_stripped) == IF by_stripped THEN x.stripped ELSE x.score

\* x goes before the first element whose key is strictly smaller
RECURSIVE InsertDesc(_, _, _)
InsertDesc(sorted, x, by_stripped) ==
    IF sorted = <<>> THEN <<x>>
    ELSE IF Greater(KeyOf(x, by_stripped), KeyOf(Head(sorted), by_stripped))
    THEN <<x>> \o sorted
    ELSE <<Head(sorted)>> \o InsertDesc(Tail(sorted), x, by_stripped)

\* list.sort(key=..., reverse=True): stable, equal keys keep the order they had
RECURSIVE SortDesc(_, _)
SortDesc(list, by_stripped) ==
    IF list = <<>> THEN <<>>
    ELSE InsertDesc(SortDesc(SubSeq(list, 1, Len(list) - 1), by_stripped),
                    list[Len(list)], by_stripped)

NoMatch == [found |-> <<>>, score |-> <<0, 1>>]
Match(entry, score) == [found |-> <<entry>>, score |-> score]

find_best_match_strict(c, target_id) ==
    IF c = <<>> THEN NoMatch
    ELSE LET by_score == SortDesc(best_matches(c, target_id), FALSE)
             by_stripped == SortDesc(by_score, TRUE)
         IN  IF Greater(by_score[1].score, <<SIMILARITY_THRESHOLD, 1>>)
             THEN Match(by_score[1].entry, by_score[1].score)
             ELSE IF Greater(by_stripped[1].stripped, <<SIMILARITY_THRESHOLD, 1>>)
             THEN Match(by_stripped[1].entry, by_stripped[1].stripped)
             ELSE NoMatch

\* SimilarityMatcher.find_best_match
find_best_match(c, target_id) ==
    IF c = <<>> THEN NoMatch
    ELSE LET by_score == SortDesc(best_matches(c, target_id), FALSE)
             by_stripped == SortDesc(by_score, TRUE)
         IN  IF AtLeast(by_score[1].score, SIMILARITY_THRESHOLD)
             THEN Match(by_score[1].entry, by_score[1].score)
             ELSE IF AtLeast(by_stripped[1].stripped, SIMILARITY_THRESHOLD)
             THEN Match(by_stripped[1].entry, by_stripped[1].stripped)
             ELSE NoMatch

\* catalog identifiers and targets for the matcher: a plain identifier, the
\* same with "(G)", two with a parenthetical group, and a pair of long ones
\* whose score is exactly the threshold
KeyPlain == <<"A", "B", "1", "2", "3", "4">>
KeyG == <<"A", "B", "(", "G", ")", "1", "2", "3", "4">>
KeyGroup3 == <<"A", "B", "1", "2", "3", "4", "(", "C", "D", "E", ")">>
KeyGroup4 == <<"A", "B", "1", "2", "3", "4", "(", "C", "D", "E", "F", ")">>
KeyLong == <<"A", "B", "1", "2", "3", "4", "(", "C", "C", "C", "C", "C", "C", "C", "C", "C", "C", "C", "D", "D", "D", ")">>
TargetLong == <<"A", "B", "1", "2", "3", "4", "C", "C", "C", "C", "C", "C", "C", "C", "C", "C", "C", "E", "E", "E">>
TargetNear == <<"A", "B", "1", "2", "3", "5">>
TargetFar == <<"P", "Q", "9", "8", "7", "6">>

MatchKeys == {KeyPlain, KeyG, KeyGroup3, KeyGroup4, KeyLong}
MatchTargets == {KeyPlain, TargetLong, TargetNear, TargetFar}

MaxCatalog == 2

Entry(k) == [key |-> k, id |-> k, table |-> "T", image_path |-> "a.jpg"]

\* catalogs of distinct identifiers, in every order
MatchCatalogs ==
    UNION {{[i \in 1..n |-> Entry(ks[i])] :
              ks \in {f \in [1..n -> MatchKeys] : \A i, j \in 1..n : f[i] = f[j] => i = j}} :
           n \in 0..MaxCatalog}

\* a query of the matcher against the catalog
find_best_match_call(target_id) ==
    /\ pc = "ready"
    /\ last' = Step("match", "",
                    [kind |-> "matched", target |-> target_id,
                     found |-> find_best_match(cache, target_id).found,
                     score |-> find_best_match(cache, target_id).score])
    /\ UNCHANGED <<impl, oracle, pc, cache, doc, Folders, Locals, History>>

(***************************************************************************)
(* The band crop: ImageProcessor._crop_company_section (the same code as   *)
(* Utils.crop_company_section).  An image is its width and its rows, top   *)
(* row first; a row is a sequence of grey values.  Row y of the code is    *)
(* rows[y + 1].                                                            *)
(***************************************************************************)
BRIGHTNESS_THRESHOLD == 150

\* 0.80, in percent
PERCENTAGE_THRESHOLD == 80

REQUIRED_CONSECUTIVE_LINES == 3

\* 0.30, in percent
SEARCH_AREA_RATIO == 30

\* int(height * (1 - search_area_ratio)); the double product truncates to
\* this quotient for every height below 90
start_search_y(height) == (height * (100 - SEARCH_AREA_RATIO)) \div 100

\* np.sum(row > brightness_threshold)
white_pixels_count(row) ==
    Cardinality({i \in DOMAIN row : row[i] > BRIGHTNESS_THRESHOLD})

is_row_white_inclusive(image, y) ==
    100 * white_pixels_count(image.rows[y + 1]) >= PERCENTAGE_THRESHOLD * image.width

\* white_pixels_count / width > percentage_threshold
is_row_white(image, y) ==
    100 * white_pixels_count(image.rows[y + 1]) > PERCENTAGE_THRESHOLD * image.width

\* the loop over y = height - 1 down to start_search_y + 1, and the test
\* after it
RECURSIVE scan_rows(_, _, _, _)
scan_rows(image, y, consecutive_white_lines, found) ==
    IF y <= start_search_y(Len(image.rows))
    THEN IF consecutive_white_lines >= REQUIRED_CONSECUTIVE_LINES
         THEN Append(found, start_search_y(Len(image.rows)) + 1)
         ELSE found
    ELSE IF is_row_white(image, y)
    THEN scan_rows(image, y - 1, consecutive_white_lines + 1, found)
    ELSE scan_rows(image, y - 1, 0,
                   IF consecutive_white_lines >= REQUIRED_CONSECUTIVE_LINES
                   THEN Append(found, y + 1)
                   ELSE found)

found_band_positions(image) == scan_rows(image, Len(image.rows) - 1, 0, <<>>)

\* Image.crop((left, upper, right, lower))
crop(image, left, upper, right, lower) ==
    [width |-> right - left,
     rows |-> [y \in 1..(lower - upper) |->
                 SubSeq(image.rows[y + upper], left + 1, right)]]

_crop_company_section_bottom_band(image) ==
    LET found == found_band_positions(image)
    IN  IF Len(found) >= 1 THEN crop(image, 0, 0, image.width, found[1])
        ELSE image

_crop_company_section(image) ==
    LET found == found_band_positions(image)
        total_bands_found == Len(found)
    IN  IF total_bands_found >= 2 THEN crop(image, 0, 0, image.width, found[2])
        ELSE IF total_bands_found = 1 THEN crop(image, 0, 0, image.width, found[1])
        ELSE image

\* The images tried: one height and one width; the scanned rows are white or
\* dark in every pattern, the rows above them all white or all dark.  A dark
\* row is black, or at the brightness threshold, or white in exactly the
\* threshold share of its pixels.
ImageWidth == 5

ImageHeight == 37

WhiteRow == [i \in 1..ImageWidth |-> 255]

DarkRows ==
    { [i \in 1..ImageWidth |-> 0],
      [i \in 1..ImageWidth |-> BRIGHTNESS_THRESHOLD],
      [i \in 1..ImageWidth |->
          IF 100 * i <= PERCENTAGE_THRESHOLD * ImageWidth THEN 255 ELSE 0] }

Images ==
    { [width |-> ImageWidth,
       rows |-> [y \in 1..ImageHeight |->
                   IF y - 1 > start_search_y(ImageHeight)
                   THEN IF pattern[y - 1] THEN WhiteRow ELSE dark
                   ELSE IF above THEN WhiteRow ELSE dark]] :
        pattern \in [(start_search_y(ImageHeight) + 1)..(ImageHeight - 1) -> BOOLEAN],
        dark \in DarkRows, above \in BOOLEAN }

_crop_company_section_call ==
    /\ last.op = "input"
    /\ last' = Step("crop", "",
                    [kind |-> "cropped", image |-> last.outcome.image,
                     bands |-> found_band_positions(last.outcome.image),
                     result |-> _crop_company_section(last.outcome.image)])
    /\ UNCHANGED <<impl, oracle, pc, cache, doc, srcDir, staging, undefinedDir, todo,
                   cached_paths, files_to_move, files_to_remove, processed_path,
                   lastSaved, extracted, committed, prevRun, runs, ids_to_search, result_csv>>

(***************************************************************************)
(* The metrics deriver: DataProcessor.compute_data with                    *)
(* _calculate_max_coplanarity, and Utils.compute_data.  A table is an      *)
(* ordered mapping (a Python dict), kept as a sequence of [label, value];  *)
(* a value is a number or an object with the members NOM and MAX, each     *)
(* missing, null or a number.  Lengths are integers: the table's in        *)
(* 1/100000 mm, the results in 1/100000 mil.                               *)
(***************************************************************************)
MissingMember == [st |-> "missing", v |-> 0]
NullMember == [st |-> "null", v |-> 0]
NumberMember(n) == [st |-> "number", v |-> n]

NumberValue(n) == [kind |-> "number", v |-> n, NOM |-> MissingMember, MAX |-> MissingMember]
ObjectValue(nom, max) == [kind |-> "object", v |-> 0, NOM |-> nom, MAX |-> max]

\* field in table
HasLabel(table, field) == \E i \in DOMAIN table : table[i].label = field

\* table[field], for a label the table has
ValueAt(table, field) == table[CHOOSE i \in DOMAIN table : table[i].label = field].value

\* the outcome of evaluating an expression: a number, or the exception raised
Value(n) == [error |-> "", v |-> n]
Error(e) == [error |-> e, v |-> 0]

\* 39.4, in tenths
MM_TO_MIL == 394

\* round(x * MM_TO_MIL, 5): the product is a whole number of 1/1000000 mil,
\* never half way between two of 1/100000
to_mil(x) == (x * MM_TO_MIL + 5) \div 10

\* table[field][member]: KeyError without the label or the member, TypeError
\* when the value is a number (not subscriptable)
member_of(table, field, member) ==
    IF ~HasLabel(table, field) THEN Error("KeyError")
    ELSE LET value == ValueAt(table, field)
             m == IF member = "NOM" THEN value.NOM ELSE value.MAX
         IN  IF value.kind # "object" THEN Error("TypeError")
             ELSE IF m.st = "missing" THEN Error("KeyError")
             ELSE IF m.st = "null" THEN Value(NullMember)
             ELSE Value(m)

\* table[field][member] * MM_TO_MIL, rounded: TypeError on null
member_in_mil(table, field, member) ==
    LET m == member_of(table, field, member)
    IN  IF m.error # "" THEN Error(m.error)
        ELSE IF m.v.st = "null" THEN Error("TypeError")
        ELSE Value(to_mil(m.v.v))

\* table[field] * MM_TO_MIL, rounded: TypeError on an object
number_in_mil(table, field) ==
    IF ~HasLabel(table, field) THEN Error("KeyError")
    ELSE IF ValueAt(table, field).kind # "number" THEN Error("TypeError")
    ELSE Value(to_mil(ValueAt(table, field).v))

max_in_mil(table, field) == member_in_mil(table, field, "MAX")

\* (table[field]['MAX'] - table[field]['NOM']) * MM_TO_MIL, rounded
span_in_mil(table, field) ==
    LET hi == member_of(table, field, "MAX")
        lo == member_of(table, field, "NOM")
    IN  IF hi.error # "" THEN Error(hi.error)
        ELSE IF lo.error # "" THEN Error(lo.error)
        ELSE IF hi.v.st = "null" \/ lo.v.st = "null" THEN Error("TypeError")
        ELSE Value(to_mil(hi.v.v - lo.v.v))

COPLANARITY_FIELDS == <<"aaa", "bbb", "ccc", "ddd", "eee">>

DEFAULT_BALL_QUALITY == 75

DEFAULT_PITCH_ERROR == 0

DEFAULT_MIN_COPLANARITY == 0

\* the loop of _calculate_max_coplanarity from the i-th field on:
\* 'MAX' in table_data[field] raises TypeError when the value is a number
RECURSIVE max_coplanarity_from(_, _)
max_coplanarity_from(table_data, i) ==
    IF i > Len(COPLANARITY_FIELDS) THEN Value(0)
    ELSE LET field == COPLANARITY_FIELDS[i]
         IN  IF ~HasLabel(table_data, field)
             THEN max_coplanarity_from(table_data, i + 1)
             ELSE IF ValueAt(table_data, field).kind # "object" THEN Error("TypeError")
             ELSE IF ValueAt(table_data, field).MAX.st = "missing"
             THEN max_coplanarity_from(table_data, i + 1)
             ELSE member_in_mil(table_data, field, "MAX")

_calculate_max_coplanarity(table_data) == max_coplanarity_from(table_data, 1)

\* the result of a call of the deriver: it raised, or returned a row, or
\* returned the empty mapping
NoRow == [raised |-> FALSE, row |-> <<>>]
RowRaised == [raised |-> TRUE, row |-> <<>>]
Row(id, coplanarity_max, nom_pitch, ball_width_error, nom_ball_width) ==
    [raised |-> FALSE,
     row |-> << [BGA_PKG_TYPE |-> id,
                 COPLANARITY_MIN |-> DEFAULT_MIN_COPLANARITY,
                 COPLANARITY_MAX |-> coplanarity_max,
                 PITCH_ERROR |-> DEFAULT_PITCH_ERROR,
                 NOMINAL_PITCH |-> nom_pitch,
                 BALL_WIDTH_ERROR |-> ball_width_error,
                 NOM_BALL_WIDTH |-> nom_ball_width,
                 BALL_QUALITY |-> DEFAULT_BALL_QUALITY] >>]

compute_data_uncaught(id_value, data_dict) ==
    LET max_coplanarity == _calculate_max_coplanarity(data_dict.table)
        nom_ball_width == member_in_mil(data_dict.table, "ob", "NOM")
        nom_pitch == number_in_mil(data_dict.table, "e")
        ball_width_error == span_in_mil(data_dict.table, "ob")
    IN  IF \/ max_coplanarity.error # ""
           \/ nom_ball_width.error # ""
           \/ nom_pitch.error # ""
           \/ ball_width_error.error # ""
        THEN RowRaised
        ELSE Row(data_dict.id, max_coplanarity.v, nom_pitch.v, ball_width_error.v,
                 nom_ball_width.v)

\* DataProcessor.compute_data: KeyError and every other exception give {}
compute_data(id_value, data_dict) ==
    LET max_coplanarity == _calculate_max_coplanarity(data_dict.table)
        nom_ball_width == member_in_mil(data_dict.table, "ob", "NOM")
        nom_pitch == number_in_mil(data_dict.table, "e")
        ball_width_error == span_in_mil(data_dict.table, "ob")
    IN  IF \/ max_coplanarity.error # ""
           \/ nom_ball_width.error # ""
           \/ nom_pitch.error # ""
           \/ ball_width_error.error # ""
        THEN NoRow
        ELSE Row(data_dict.id, max_coplanarity.v, nom_pitch.v, ball_width_error.v,
                 nom_ball_width.v)

\* Utils.compute_data: the if/elif chain tests the label only, its else
\* branch reads 'eee'; nothing is caught
Utils_compute_data(id, data_dict) ==
    LET table == data_dict.table
        first == {i \in 1..4 : /\ HasLabel(table, COPLANARITY_FIELDS[i])
                               /\ \A j \in 1..(i - 1) : ~HasLabel(table, COPLANARITY_FIELDS[j])}
        field == IF first = {} THEN "eee" ELSE COPLANARITY_FIELDS[CHOOSE i \in first : TRUE]
        max_coplanarity == member_in_mil(table, field, "MAX")
        nom_ball_width == member_in_mil(table, "ob", "NOM")
        nom_pitch == number_in_mil(table, "e")
        ball_width_error == span_in_mil(table, "ob")
    IN  IF \/ max_coplanarity.error # ""
           \/ nom_ball_width.error # ""
           \/ nom_pitch.error # ""
           \/ ball_width_error.error # ""
        THEN RowRaised
        ELSE Row(data_dict.id, max_coplanarity.v, nom_pitch.v, ball_width_error.v,
                 nom_ball_width.v)

\* The records tried.  Each label is absent or holds one of a few values;
\* the labels come in the order of the drawing or in the reverse order.
\* "ob" stands for the label of the ball diameter.
MetricLabels == <<"aaa", "bbb", "ccc", "ddd", "eee", "e", "ob">>

Reverse(list) == [i \in 1..Len(list) |-> list[Len(list) + 1 - i]]

OnlyMax(n) == ObjectValue(NullMember, NumberMember(n))

RECURSIVE TableOf(_, _)
TableOf(labels, choice) ==
    IF labels = <<>> THEN <<>>
    ELSE (IF choice[Head(labels)] = <<>> THEN <<>>
          ELSE <<[label |-> Head(labels), value |-> choice[Head(labels)][1]]>>)
         \o TableOf(Tail(labels), choice)

MetricTables ==
    { TableOf(labels,
              [l \in {"aaa", "bbb", "ccc", "ddd", "eee", "e", "ob"} |->
                  CASE l = "aaa" -> a [] l = "bbb" -> b [] l = "ccc" -> c
                    [] l = "ddd" -> d [] l = "eee" -> e5 [] l = "e" -> p
                    [] OTHER -> o]) :
        a \in {<<>>, <<OnlyMax(20000)>>},
        b \in {<<>>, <<OnlyMax(5000)>>},
        c \in {<<>>, <<OnlyMax(10000)>>, <<ObjectValue(NumberMember(10000), MissingMember)>>,
               <<ObjectValue(NullMember, NullMember)>>, <<NumberValue(10000)>>},
        d \in {<<>>, <<OnlyMax(8000)>>},
        e5 \in {<<>>, <<OnlyMax(15000)>>},
        p \in {<<>>, <<NumberValue(50000)>>, <<NumberValue(12346)>>},
        o \in {<<>>, <<ObjectValue(NumberMember(30000), NumberMember(35000))>>,
               <<ObjectValue(NumberMember(30000), MissingMember)>>},
        labels \in {MetricLabels, Reverse(MetricLabels)} }

IdCP == <<"C", "P", "1", "3", "2", "/", "C", "P", "G", "1", "3", "2">>

MetricRecords == {[id |-> IdCP, table |-> t, image_path |-> "a.jpg"] : t \in MetricTables}

compute_data_call ==
    /\ last.op = "input"
    /\ last' = Step("compute", "",
                    [kind |-> "derived", by |-> "DataProcessor", record |-> last.outcome.record,
                     result |-> compute_data(last.outcome.record.id, last.outcome.record)])
    /\ UNCHANGED <<impl, oracle, pc, cache, doc, srcDir, staging, undefinedDir, todo,
                   cached_paths, files_to_move, files_to_remove, processed_path,
                   lastSaved, extracted, committed, prevRun, runs, ids_to_search, result_csv>>

Utils_compute_data_call ==
    /\ last.op = "input"
    /\ last' = Step("compute", "",
                    [kind |-> "derived", by |-> "Utils", record |-> last.outcome.record,
                     result |-> Utils_compute_data(last.outcome.record.id, last.outcome.record)])
    /\ UNCHANGED <<impl, oracle, pc, cache, doc, srcDir, staging, undefinedDir, todo,
                   cached_paths, files_to_move, files_to_remove, processed_path,
                   lastSaved, extracted, committed, prevRun, runs, ids_to_search, result_csv>>

(***************************************************************************)
(* The batch pipeline: OCRProcessor.process_ids, _process_single_id and    *)
(* _update_result_dataframe.  An output row is its identifier column and   *)
(* the derived columns, empty until the row is filled.                     *)
(***************************************************************************)
OutputRow(id) == [BGA_PKG_TYPE |-> id, data |-> <<>>]

\* result_csv.loc[row_index, original_col] = value for every column of
\* new_row_data, row_index being the rows whose identifier is id_value
_update_result_dataframe(rows, id_value, new_row_data) ==
    [i \in DOMAIN rows |->
        IF rows[i].BGA_PKG_TYPE = id_value
        THEN [BGA_PKG_TYPE |-> new_row_data.BGA_PKG_TYPE, data |-> <<new_row_data>>]
        ELSE rows[i]]

\* the catalogs and the batches tried
TableCP ==
    << [label |-> "ob", value |-> ObjectValue(NumberMember(30000), NumberMember(35000))],
       [label |-> "e", value |-> NumberValue(50000)],
       [label |-> "ccc", value |-> ObjectValue(MissingMember, NumberMember(10000))] >>

TableNoPitch ==
    << [label |-> "ob", value |-> ObjectValue(NumberMember(30000), NumberMember(35000))],
       [label |-> "ccc", value |-> ObjectValue(MissingMember, NumberMember(10000))] >>

EntryCP == [key |-> IdCP, id |-> IdCP, table |-> TableCP, image_path |-> "a.jpg"]
EntryNoPitch == [key |-> KeyPlain, id |-> KeyPlain, table |-> TableNoPitch, image_path |-> "b.jpg"]
EntryNull == [key |-> None, id |-> None, table |-> TableCP, image_path |-> "c.jpg"]

TargetCP == <<"C", "P", "1", "3", "2">>

BatchCatalogs ==
    { <<>>, <<EntryCP>>, <<EntryNoPitch>>, <<EntryCP, EntryNoPitch>>,
      <<EntryNoPitch, EntryCP>>, <<EntryCP, EntryNull>> }

BatchTargets == {TargetCP, KeyPlain, TargetFar, IdCP}

BatchAdjudications == {AdjudicationError, Answer(NA), Answer(IdCP), Answer(KeyPlain)}

MaxBatch == 2

Batches == UNION {[1..n -> BatchTargets] : n \in 1..MaxBatch}

\* process_ids up to the loop: ids_to_search = self.data['BGA Pkg Type']
process_ids ==
    /\ pc = "ready"
    /\ pc' = "process_ids"
    /\ ids_to_search' = [i \in DOMAIN result_csv |-> result_csv[i].BGA_PKG_TYPE]
    /\ last' = Step("process_ids", "", [kind |-> "entered"])
    /\ UNCHANGED <<impl, oracle, cache, doc, Folders, Locals, extracted, committed,
                   prevRun, lastSaved, runs, result_csv>>

\* one iteration of the loop: _process_single_id(id_value, id_column_original)
_process_single_id ==
    /\ pc = "process_ids"
    /\ ids_to_search # <<>>
    /\ LET id_value == Head(ids_to_search)
           fuzzy == IF cache # <<>> THEN fuzz_match_id(cache, id_value) ELSE Returned(<<>>)
       IN  \E answer \in (IF fuzzy.raised \/ fuzzy.found # <<>> \/ cache = <<>>
                          THEN {AdjudicationError} ELSE BatchAdjudications) :
             LET response == IF fuzzy.raised \/ fuzzy.found # <<>> \/ cache = <<>>
                             THEN fuzzy
                             ELSE gemini_match_id(cache, answer)
                 via == IF fuzzy.found # <<>> THEN "fuzzy"
                        ELSE IF response.found # <<>> THEN "adjudication" ELSE "none"
                 new_row_data == IF response.found # <<>>
                                 THEN compute_data(id_value, response.found[1])
                                 ELSE NoRow
             IN  IF response.raised \/ new_row_data.raised
                 THEN /\ pc' = "failed"
                      /\ UNCHANGED <<ids_to_search, result_csv>>
                      /\ last' = Step("process", "",
                                      [kind |-> "raised", target |-> id_value,
                                       found |-> response.found, via |-> via,
                                       row |-> <<>>])
                 ELSE /\ pc' = pc
                      /\ ids_to_search' = Tail(ids_to_search)
                      /\ result_csv' =
                            IF new_row_data.row # <<>>
                            THEN _update_result_dataframe(result_csv, id_value,
                                                          new_row_data.row[1])
                            ELSE result_csv
                      /\ last' = Step("process", "",
                                      [kind |-> IF response.found = <<>> THEN "not found"
                                                ELSE IF new_row_data.row = <<>> THEN "not computed"
                                                ELSE "filled",
                                       target |-> id_value, found |-> response.found,
                                       via |-> via, row |-> new_row_data.row])
    /\ UNCHANGED <<impl, oracle, cache, doc, Folders, Locals, extracted, committed,
                   prevRun, lastSaved, runs>>

\* the loop is over: process_ids returns
process_ids_return ==
    /\ pc = "process_ids"
    /\ ids_to_search = <<>>
    /\ pc' = "done"
    /\ last' = Step("process_ids", "", [kind |-> "returned"])
    /\ UNCHANGED <<impl, oracle, cache, doc, Folders, Locals, extracted, committed,
                   prevRun, lastSaved, runs, ids_to_search, result_csv>>

(***************************************************************************)
(* Specifications                                                          *)
(***************************************************************************)
InitCommon ==
    /\ impl \in {"CM", "GF"}
    /\ pc = "off"
    /\ cache = <<>>
    /\ doc = Absent
    /\ srcDir = InitialFiles
    /\ staging = {}
    /\ undefinedDir = {}
    /\ todo = {}
    /\ cached_paths = {}
    /\ files_to_move = <<>>
    /\ files_to_remove = <<>>
    /\ processed_path = Unbound
    /\ last = NoStep
    /\ lastSaved = <<>>
    /\ extracted = {}
    /\ committed = {}
    /\ prevRun = NoRun
    /\ runs = 0
    /\ ids_to_search = <<>>
    /\ result_csv = <<>>

Init ==
    /\ InitCommon
    /\ oracle = [free |-> TRUE]

\* the steps of an ingestion run and of the process around it
Ingest ==
    \/ Boot
    \/ process_new_images
    \/ \E f \in Names : process_new_images_iterate(f)
    \/ refresh_cache
    \/ \E f \in Names : refresh_cache_stage(f)
    \/ refresh_cache_scan
    \/ \E f \in Names : refresh_cache_iterate(f)
    \/ move_files
    \/ remove_files
    \/ save_open
    \/ save_dump
    \/ Exit

Next ==
    \/ Ingest
    \/ \E t \in Targets : get_similar_id(t)
    \/ save_open_error
    \/ save_dump_error
    \/ Interrupt

Spec == Init /\ [][Next]_vars

\* An extraction capability that answers the same for the same image, in an
\* environment where no write fails and nothing interrupts the process
DetOutcomes ==
    {OpenError, Response(<<JObject(IdX, "T")>>),
     Response(<<start_marker, JObject(IdY, "T"), end_marker>>),
     Response(<<JObject(IdX, EmptyTable)>>), Response(<<Prose, JObject(IdY, "T"), end_marker>>)}

InitDet ==
    /\ InitCommon
    /\ oracle \in {[free |-> FALSE, answer |-> a] : a \in [InitialFiles -> DetOutcomes]}

SpecDet == InitDet /\ [][Ingest]_vars

\* The normalizer as a function of the raw identifier
InitClean ==
    /\ impl = "CM"
    /\ oracle = [free |-> TRUE]
    /\ pc = "ready"
    /\ cache = <<>>
    /\ doc = Absent
    /\ srcDir = {}
    /\ staging = {}
    /\ undefinedDir = {}
    /\ todo = {}
    /\ cached_paths = {}
    /\ files_to_move = <<>>
    /\ files_to_remove = <<>>
    /\ processed_path = Unbound
    /\ last \in {Step("input", "", [kind |-> "id", id |-> x]) : x \in RawIds}
    /\ lastSaved = <<>>
    /\ extracted = {}
    /\ committed = {}
    /\ prevRun = NoRun
    /\ runs = 0
    /\ ids_to_search = <<>>
    /\ result_csv = <<>>

SpecClean == InitClean /\ [][clean_id_call]_vars

\* The normalizer applied to an identifier and then to its own result
NextCleanTwice == clean_id_call \/ clean_id_again

SpecCleanTwice == InitClean /\ [][NextCleanTwice]_vars

\* The matcher as a function of the catalog and the target
InitMatch ==
    /\ impl = "CM"
    /\ oracle = [free |-> TRUE]
    /\ pc = "ready"
    /\ cache \in MatchCatalogs
    /\ doc = Absent
    /\ srcDir = {}
    /\ staging = {}
    /\ undefinedDir = {}
    /\ todo = {}
    /\ cached_paths = {}
    /\ files_to_move = <<>>
    /\ files_to_remove = <<>>
    /\ processed_path = Unbound
    /\ last = NoStep
    /\ lastSaved = <<>>
    /\ extracted = {}
    /\ committed = {}
    /\ prevRun = NoRun
    /\ runs = 0
    /\ ids_to_search = <<>>
    /\ result_csv = <<>>

NextMatch == \E t \in MatchTargets : find_best_match_call(t)

SpecMatch == InitMatch /\ [][NextMatch]_vars

\* The band crop as a function of the image
InitCrop ==
    /\ impl = "CM"
    /\ oracle = [free |-> TRUE]
    /\ pc = "ready"
    /\ cache = <<>>
    /\ doc = Absent
    /\ srcDir = {}
    /\ staging = {}
    /\ undefinedDir = {}
    /\ todo = {}
    /\ cached_paths = {}
    /\ files_to_move = <<>>
    /\ files_to_remove = <<>>
    /\ processed_path = Unbound
    /\ last \in {Step("input", "", [kind |-> "image", image |-> x]) : x \in Images}
    /\ lastSaved = <<>>
    /\ extracted = {}
    /\ committed = {}
    /\ prevRun = NoRun
    /\ runs = 0
    /\ ids_to_search = <<>>
    /\ result_csv = <<>>

SpecCrop == InitCrop /\ [][_crop_company_section_call]_vars

\* The metrics deriver as a function of the record
InitMetrics ==
    /\ impl = "CM"
    /\ oracle = [free |-> TRUE]
    /\ pc = "ready"
    /\ cache = <<>>
    /\ doc = Absent
    /\ srcDir = {}
    /\ staging = {}
    /\ undefinedDir = {}
    /\ todo = {}
    /\ cached_paths = {}
    /\ files_to_move = <<>>
    /\ files_to_remove = <<>>
    /\ processed_path = Unbound
    /\ last \in {Step("input", "", [kind |-> "record", record |-> x]) : x \in MetricRecords}
    /\ lastSaved = <<>>
    /\ extracted = {}
    /\ committed = {}
    /\ prevRun = NoRun
    /\ runs = 0
    /\ ids_to_search = <<>>
    /\ result_csv = <<>>

NextMetrics == compute_data_call \/ Utils_compute_data_call

SpecMetrics == InitMetrics /\ [][NextMetrics]_vars

\* The batch pipeline over a loaded catalog
InitBatch ==
    /\ impl = "GF"
    /\ oracle = [free |-> TRUE]
    /\ pc = "ready"
    /\ cache \in BatchCatalogs
    /\ doc = Absent
    /\ srcDir = {}
    /\ staging = {}
    /\ undefinedDir = {}
    /\ todo = {}
    /\ cached_paths = {}
    /\ files_to_move = <<>>
    /\ files_to_remove = <<>>
    /\ processed_path = Unbound
    /\ last = NoStep
    /\ lastSaved = <<>>
    /\ extracted = {}
    /\ committed = {}
    /\ prevRun = NoRun
    /\ runs = 0
    /\ ids_to_search = <<>>
    /\ result_csv \in {[i \in DOMAIN b |-> OutputRow(b[i])] : b \in Batches}

NextBatch == process_ids \/ _process_single_id \/ process_ids_return

SpecBatch == InitBatch /\ [][NextBatch]_vars

\* An image folder that also holds a file that is no supported image
MixedFiles == {"a.jpg", "c.png"}

InitMixed ==
    /\ impl \in {"CM", "GF"}
    /\ oracle = [free |-> TRUE]
    /\ pc = "off"
    /\ cache = <<>>
    /\ doc = Absent
    /\ srcDir = MixedFiles
    /\ staging = {}
    /\ undefinedDir = {}
    /\ todo = {}
    /\ cached_paths = {}
    /\ files_to_move = <<>>
    /\ files_to_remove = <<>>
    /\ processed_path = Unbound
    /\ last = NoStep
    /\ lastSaved = <<>>
    /\ extracted = {}
    /\ committed = {}
    /\ prevRun = NoRun
    /\ runs = 0
    /\ ids_to_search = <<>>
    /\ result_csv = <<>>

SpecMixed == InitMixed /\ [][Ingest]_vars

(***************************************************************************)
(* Properties                                                              *)
(***************************************************************************)
Range(list) == {list[i] : i \in DOMAIN list}

\* the source paths held by the records of a catalog
Paths(c) == {c[i].image_path : i \in DOMAIN c}

\* the identifiers of a catalog as the document spells them
Ids(c) == {JsonKey(k) : k \in Keys(c)}

\* what a load yields of a catalog that was saved completely
Saved(c) == json_load(json_dump(c))

\* the extraction capability was invoked in the step that gave outcome o
Extracts(o) == o.kind \in {"extract_error", "response"}

\* the step that gave outcome o raised an exception inside the loop body
Raises(o) ==
    \/ o.kind \in {"open_error", "save_error", "extract_error"}
    \/ /\ o.kind = "response"
       /\ (MissingField(Parsed(o)) \/ MissingId(Parsed(o)))

\* the response text is not JSON once an opening and a closing fence are taken off
Unparseable(text) ==
    LET inner == IF text # <<>> /\ Head(text) = start_marker THEN Tail(text) ELSE text
        body == IF inner # <<>> /\ inner[Len(inner)] = end_marker
                THEN SubSeq(inner, 1, Len(inner) - 1) ELSE inner
    IN  ~(Len(body) = 1 /\ body[1].piece = "json")

\* C1: when a run ends after an earlier complete run, with the extraction
\* capability deterministic and no image moved out of the folder, the catalog
\* equals the one the earlier run left and no path the earlier run committed
\* was extracted again.
C1_SecondRunIdempotent ==
    (pc = "idle" /\ prevRun.valid /\ undefinedDir = {})
        => (cache = prevRun.catalog /\ extracted \cap prevRun.committed = {})

\* C2: whenever the scan stands between two images, every record of the
\* in-memory catalog is in the catalog the persisted document loads to.
C2_PersistedBeforeNextImage ==
    (pc = "scan" /\ todo # {}) => Range(Saved(cache)) \subseteq Range(_load_cache(doc))

\* C3: at every instant the persisted document loads to the complete catalog
\* of the last completed save or, inside a save, to the complete catalog being saved.
C3_DocumentAtomic ==
    \/ _load_cache(doc) = lastSaved
    \/ pc = "saving" /\ _load_cache(doc) = Saved(cache)

\* C4: after a step of the loop in which processing an image raised, the loop
\* is still running and the image is on the quarantine list.
C4_ExceptionKeepsLoop ==
    (last.op \in {"image", "stage"} /\ Raises(last.outcome))
        => (pc = "scan" /\ last.file \in Range(files_to_move))

\* C5: a step of the loop whose response parses with an empty table leaves
\* the catalog as it was and, the loop going on, has the image on the quarantine list.
C5_EmptyTableNeverCommits ==
    [][(pc = "scan" /\ last'.op = "image" /\ TableEmpty(Parsed(last'.outcome)))
          => (cache' = cache /\ (pc' = "scan" => last'.file \in Range(files_to_move')))]_vars

\* C6: a step of the loop whose response is not JSON after the fences are
\* stripped: the parser returns its failure value, the loop goes on, the image
\* is on the quarantine list and the catalog is as it was.
C6_UnparseableQuarantined ==
    [][(pc = "scan" /\ last'.op = "image" /\ last'.outcome.kind = "response"
            /\ Unparseable(last'.outcome.text))
          => /\ clean_json_response(last'.outcome.text) = ParseFailure
             /\ pc' = "scan"
             /\ last'.file \in Range(files_to_move')
             /\ cache' = cache]_vars

\* an unparseable response has just been handled by the loop
C6_Witness ==
    /\ pc = "scan"
    /\ last.op = "image"
    /\ last.outcome.kind = "response"
    /\ Unparseable(last.outcome.text)
    /\ last.file \in Range(files_to_move)
    /\ cache # <<>>

\* C7: every record of the catalog has an identifier that is not null.
C7_IdentifierNotNull ==
    \A i \in DOMAIN cache : cache[i].key # None /\ cache[i].id # None

\* C8: no two records of the catalog hold the same source path, and a step
\* of the loop that invokes the extraction capability or commits does so for
\* a path that no record of the catalog holds.
C8_SourcePathUnique ==
    [][/\ \A i, j \in DOMAIN cache' :
             cache'[i].image_path = cache'[j].image_path => i = j
       /\ (pc = "scan" /\ last'.op = "image"
              /\ (Extracts(last'.outcome) \/ cache' # cache))
            => last'.file \notin Paths(cache)]_vars

\* a later run skips a path that a record holds, in a catalog of two records
C8_Witness ==
    /\ runs >= 2
    /\ last.op = "skip"
    /\ last.file \in Paths(cache)
    /\ Len(cache) >= 2

\* C9: when the steps that follow the scan end (the removal loop has run, or
\* the move loop raised), every image on the quarantine list is in the
\* "undefined" folder and has no staging artifact; and the "undefined" folder
\* changes only after the scan has finished.
C9_QuarantineAfterScan ==
    [][/\ ((pc = "remove" /\ last'.op = "remove")
              \/ (pc = "scan" /\ last'.op = "move" /\ pc' = "failed"))
            => \A f \in Range(files_to_move) : f \in undefinedDir' /\ f \notin staging'
       /\ undefinedDir' # undefinedDir => (pc = "scan" /\ todo = {})]_vars

\* C10: while the process runs no step takes an identifier out of the
\* in-memory catalog or changes a record when an image is quarantined, and
\* when the process stops the document still loads to every identifier of
\* the last completed save.
C10_IdentifiersOnlyGrow ==
    [][/\ (pc # "off" /\ pc' # "off") => Keys(cache) \subseteq Keys(cache')
       /\ (pc = "scan" /\ pc' = "scan" /\ files_to_move' # files_to_move)
            => \A i \in DOMAIN cache : i \in DOMAIN cache' /\ cache'[i] = cache[i]
       /\ pc' = "off" => Ids(lastSaved) \subseteq Ids(_load_cache(doc'))]_vars

\* C11: a start that finds the document absent, or not well-formed JSON,
\* has an empty catalog and the process is ready (the load raised nothing).
C11_LoadTolerant ==
    [][(pc = "off" /\ last'.op = "boot" /\ (~doc.exists \/ ~WellFormed(doc.text)))
          => (cache' = <<>> /\ pc' = "ready")]_vars

\* the process has started on a document that an unfinished save left partial
C11_Witness ==
    /\ last.op = "boot"
    /\ pc = "ready"
    /\ doc.exists
    /\ Len(doc.text) >= 2
    /\ ~WellFormed(doc.text)
    /\ cache = <<>>

\* C12: after a step in which the document could not be written, the
\* ingestion run has stopped with a failure.
C12_SaveErrorPropagates ==
    last.op = "save_error" => pc = "failed"

\* the entry of the catalog that a query returned, with its sort keys
Equal(score1, score2) == score1[1] * score2[2] = score2[1] * score1[2]
RawOf(e) == similarity_score(clean_id(e.key), last.outcome.target)
StrippedOf(e) == similarity_score_stripped(clean_id(e.key), last.outcome.target)
RawClears == \E i \in DOMAIN cache : AtLeast(RawOf(cache[i]), 85)
StrippedClears == \E i \in DOMAIN cache : AtLeast(StrippedOf(cache[i]), 85)

\* C13: over a non-empty catalog the matcher returns an entry of the highest
\* raw score when some raw score is at least 85; otherwise an entry of the
\* highest stripped score when some stripped score is at least 85; otherwise nothing.
C13_BestMatchTwoPasses ==
    (last.op = "match" /\ cache # <<>>)
        => LET found == last.outcome.found
           IN  IF RawClears
               THEN /\ found # <<>>
                    /\ \E i \in DOMAIN cache : cache[i] = found[1]
                    /\ \A j \in DOMAIN cache : ~Greater(RawOf(cache[j]), RawOf(found[1]))
               ELSE IF StrippedClears
               THEN /\ found # <<>>
                    /\ \E i \in DOMAIN cache : cache[i] = found[1]
                    /\ \A j \in DOMAIN cache :
                          ~Greater(StrippedOf(cache[j]), StrippedOf(found[1]))
               ELSE found = <<>>

\* a match was accepted at a score of exactly 85
C13_Witness ==
    /\ last.op = "match"
    /\ last.outcome.found # <<>>
    /\ Equal(last.outcome.score, <<85, 1>>)

\* C14: the entry a query returns has no entry before it in the catalog that
\* ties with it for the score of the pass that accepted the match.
C14_TieFirstInCatalogOrder ==
    (last.op = "match" /\ last.outcome.found # <<>>)
        => LET found == last.outcome.found[1]
               at == CHOOSE i \in DOMAIN cache : cache[i] = found
           IN  \A j \in 1..(at - 1) :
                 IF RawClears
                 THEN ~Equal(RawOf(cache[j]), RawOf(found))
                 ELSE ~Equal(StrippedOf(cache[j]), StrippedOf(found))

\* C15: in a resolution the adjudication capability is asked at most once,
\* only over a non-empty catalog and only when the similarity match returned
\* no match; a similarity match is returned without an adjudication call.
C15_AdjudicationOnlyAfterNoMatch ==
    last.op = "resolve"
        => LET fuzzy == IF cache # <<>> THEN fuzz_match_id(cache, last.outcome.target)
                        ELSE Returned(<<>>)
               asked == last.outcome.asked
           IN  /\ Len(asked) <= 1
               /\ asked # <<>> => (cache # <<>> /\ ~fuzzy.raised /\ fuzzy.found = <<>>)
               /\ fuzzy.found # <<>> => (last.outcome.found = fuzzy.found /\ asked = <<>>)

\* the adjudication capability was asked after the similarity match found
\* nothing, and its answer named a record
C15_Witness ==
    /\ last.op = "resolve"
    /\ last.outcome.asked # <<>>
    /\ last.outcome.found # <<>>
    /\ fuzz_match_id(cache, last.outcome.target).found = <<>>

\* C16 (as stated): after a failed similarity match a record is returned
\* exactly when the adjudication answer is verbatim a catalog identifier.
C16_VerbatimAnswer ==
    (last.op = "resolve" /\ last.outcome.asked # <<>>)
        => LET answer == last.outcome.asked[1]
           IN  last.outcome.found # <<>>
                 <=> (answer.kind = "text" /\ answer.text \in Keys(cache))

\* C16 (amended): after a failed similarity match the resolver returns the
\* record stored under the adjudication answer stripped of surrounding
\* whitespace when that is a catalog identifier, and nothing otherwise (the
\* sentinel, another string, a raising call); it raises nothing and the
\* catalog is unchanged.
C16_StrippedAnswer ==
    [][(last'.op = "resolve" /\ last'.outcome.asked # <<>>)
          => LET answer == last'.outcome.asked[1]
                 named == answer.kind = "text" /\ strip(answer.text) \in Keys(cache)
             IN  /\ named => last'.outcome.found = <<cache[IndexOf(cache, strip(answer.text))]>>
                 /\ ~named => last'.outcome.found = <<>>
                 /\ ~last'.outcome.raised
                 /\ pc' = pc
                 /\ cache' = cache]_vars

\* an answer padded with whitespace named a record, and it was returned
C16_Witness ==
    /\ last.op = "resolve"
    /\ last.outcome.asked # <<>>
    /\ last.outcome.asked[1].kind = "text"
    /\ last.outcome.asked[1].text \notin Keys(cache)
    /\ last.outcome.found # <<>>

\* the identifier of the normalizer's example, and its signature
IdSlash == <<"F", "F", "(", "G", ")", "/", "E", "F", "1", "1", "5", "2">>

\* C17 (as stated): the normalizer turns "FF(G)/EF1152" into the letters
\* "EF" followed by the digits "1152".
C17_SignatureEF ==
    (last.op = "clean" /\ last.outcome.id = IdSlash)
        => last.outcome.result = <<"E", "F", "1", "1", "5", "2">>

\* C17 (amended): the normalizer turns "FF(G)/EF1152" into a 2-letter +
\* 4-digit signature whose letters are "FF", the first two letters left after
\* "(G)" is removed, and whose digits are "1152".
C17_SignatureFF ==
    (last.op = "clean" /\ last.outcome.id = IdSlash)
        => last.outcome.result = <<"F", "F", "1", "1", "5", "2">>

\* the normalizer has been applied to "FF(G)/EF1152"
C17_Witness ==
    /\ last.op = "clean"
    /\ last.outcome.id = IdSlash
    /\ Len(last.outcome.result) = 6

\* what is left of an identifier once "(G)" and every balanced group are gone
Remainder(id) == StripGroups(RemoveAllFrom(id, 1, <<"(", "G", ")">>))
LettersOf(id) == SelectSeq(Remainder(id), IsLetter)
DigitsOf(id) == SelectSeq(Remainder(id), IsDigit)

\* the first 2 letters and the first 4 digits, then the last of the groups
\* (without its "VIRTEX-...:" prefix) when there is one
Canonical(id, groups) ==
    SubSeq(LettersOf(id), 1, 2) \o SubSeq(DigitsOf(id), 1, 4)
      \o (IF groups = <<>> THEN <<>>
          ELSE <<" ">> \o StripVirtexFrom(groups[Len(groups)], 1))

IdVirtex == <<"F", "F", "(", "G", ")", "1", "1", "5", "2", " ", "(", "V", "I", "R", "T", "E", "X", "-", "4", ":", " ", "X", "Q", "4", "V", "F", "X", "1", "0", "0", ")">>

\* C18 (as stated): for an identifier with at least 2 letters and 4 digits
\* left, the result is the first 2 letters and the first 4 digits, followed by
\* the last parenthetical group of the original string exactly when the
\* original string has a parenthetical group.
C18_SuffixOfOriginal ==
    (last.op = "clean" /\ Len(LettersOf(last.outcome.id)) >= 2
        /\ Len(DigitsOf(last.outcome.id)) >= 4)
        => last.outcome.result = Canonical(last.outcome.id, FindGroupsFrom(last.outcome.id, 1))

\* C18 (amended): the same, with the groups taken from the string after
\* "(G)" has been removed (a "(G)" is never the suffix and does not count as
\* a group); for "FF(G)1152 (VIRTEX-4: XQ4VFX100)" the result is
\* "FF1152 ( XQ4VFX100)".
C18_SuffixAfterMarker ==
    (last.op = "clean" /\ Len(LettersOf(last.outcome.id)) >= 2
        /\ Len(DigitsOf(last.outcome.id)) >= 4)
        => /\ last.outcome.result =
                Canonical(last.outcome.id,
                          FindGroupsFrom(RemoveAllFrom(last.outcome.id, 1, <<"(", "G", ")">>), 1))
           /\ last.outcome.id = IdVirtex => last.outcome.result = <<"F", "F", "1", "1", "5", "2", " ", "(", " ", "X", "Q", "4", "V", "F", "X", "1", "0", "0", ")">>

\* the normalizer has appended the trailing group of the example
C18_Witness ==
    /\ last.op = "clean"
    /\ last.outcome.id = IdVirtex
    /\ Len(last.outcome.result) > 6

\* C19: an identifier that, after "(G)" and every balanced group are stripped,
\* has fewer than 2 letters and fewer than 4 digits is returned unchanged.
C19_ShortIdUnchanged ==
    (last.op = "clean" /\ Len(LettersOf(last.outcome.id)) < 2
        /\ Len(DigitsOf(last.outcome.id)) < 4)
        => last.outcome.result = last.outcome.id

\* the top rows of the bands of an image: the first row of every run of at
\* least 3 white rows among the scanned rows
BandTops(image) ==
    LET height == Len(image.rows)
        scanned == (start_search_y(height) + 1)..(height - 1)
        White(y) == 100 * Cardinality({i \in 1..image.width :
                                         image.rows[y + 1][i] > 150}) > 80 * image.width
    IN  {y \in scanned :
            /\ \A k \in 0..2 : y + k \in scanned /\ White(y + k)
            /\ (y - 1 \in scanned => ~White(y - 1))}

\* the rows [0, n) of an image at full width
TopRows(image, n) == [width |-> image.width, rows |-> SubSeq(image.rows, 1, n)]

\* C20: the bands are found from the bottom of the image upward; with 2 or
\* more bands the result is the image cropped to the second band from the
\* bottom, with exactly 1 band to that band, with none the image itself; a
\* crop keeps exactly the rows [0, crop_y) at full width.
C20_CropToSecondBand ==
    last.op = "crop" =>
        LET image == last.outcome.image
            bands == last.outcome.bands
            result == last.outcome.result
        IN  /\ Range(bands) = BandTops(image)
            /\ \A i, j \in DOMAIN bands : i < j => bands[i] > bands[j]
            /\ Len(bands) >= 2 => result = TopRows(image, bands[2])
            /\ Len(bands) = 1 => result = TopRows(image, bands[1])
            /\ Len(bands) = 0 => result = image

\* an image with three bands has been cropped to the middle one
C20_Witness ==
    /\ last.op = "crop"
    /\ Len(last.outcome.bands) = 3
    /\ Len(last.outcome.result.rows) = last.outcome.bands[2]
    /\ last.outcome.bands[2] < last.outcome.bands[1]
    /\ last.outcome.bands[3] < last.outcome.bands[2]

\* the labels of the priority list that a table holds with a MAX member
Bearing(table) ==
    {i \in 1..5 : \E k \in DOMAIN table :
        /\ table[k].label = <<"aaa", "bbb", "ccc", "ddd", "eee">>[i]
        /\ table[k].value.kind = "object"
        /\ table[k].value.MAX.st = "number"}

\* the labels of the priority list that a table holds
Labelled(table) ==
    {i \in 1..5 : \E k \in DOMAIN table :
        table[k].label = <<"aaa", "bbb", "ccc", "ddd", "eee">>[i]}

\* the MAX member of the i-th label of the priority list, in 1/100000 mm
MaxOf(table, i) ==
    LET k == CHOOSE n \in DOMAIN table : table[n].label = <<"aaa", "bbb", "ccc", "ddd", "eee">>[i]
    IN  table[k].value.MAX.v

\* the table holds the pitch and the ball diameter with NOM and MAX
Complete(table) ==
    /\ \E k \in DOMAIN table : table[k].label = "e" /\ table[k].value.kind = "number"
    /\ \E k \in DOMAIN table :
        /\ table[k].label = "ob"
        /\ table[k].value.NOM.st = "number"
        /\ table[k].value.MAX.st = "number"

\* C21: max coplanarity comes from the first label of aaa, bbb, ccc, ddd, eee
\* that the table holds, whatever the order of the table's keys; when the
\* table holds none of them it is 0 and the other metrics are still produced.
C21_FirstCoplanarityLabel ==
    (last.op = "compute" /\ Complete(last.outcome.record.table)
        /\ Labelled(last.outcome.record.table) = Bearing(last.outcome.record.table))
        => LET table == last.outcome.record.table
               result == last.outcome.result
           IN  /\ ~result.raised
               /\ result.row # <<>>
               /\ Labelled(table) = {} => result.row[1].COPLANARITY_MAX = 0
               /\ \A i \in Labelled(table) :
                    (\A j \in Labelled(table) : i <= j)
                        => result.row[1].COPLANARITY_MAX = (MaxOf(table, i) * 394 + 5) \div 10

\* C22: a table without the pitch entry, or without the ball-diameter entry
\* with NOM and MAX, gives the empty result and nothing is raised.
C22_MissingFieldGivesEmpty ==
    (last.op = "compute" /\ ~Complete(last.outcome.record.table))
        => /\ ~last.outcome.result.raised
           /\ last.outcome.result.row = <<>>

\* C23: with the catalog holding exactly the record "CP132/CPG132", the
\* target "CP132" is matched to it by similarity with a score of at least
\* the threshold, by the resolver and by SimilarityMatcher.find_best_match,
\* and the deriver gives nom_pitch 19.7, nom_ball_width 11.82,
\* ball_width_error 1.97, max_coplanarity 3.94, min_coplanarity 0 and
\* ball_quality 75.
C23_EndToEnd ==
    (cache = <<EntryCP>> /\ last.op = "process" /\ last.outcome.target = TargetCP)
        => /\ last.outcome.kind = "filled"
           /\ last.outcome.via = "fuzzy"
           /\ last.outcome.found = <<EntryCP>>
           /\ AtLeast(similarity_score(clean_id(IdCP), TargetCP), 85)
           /\ find_best_match(cache, TargetCP).found = <<EntryCP>>
           /\ AtLeast(find_best_match(cache, TargetCP).score, 85)
           /\ last.outcome.row[1].NOMINAL_PITCH = 1970000
           /\ last.outcome.row[1].NOM_BALL_WIDTH = 1182000
           /\ last.outcome.row[1].BALL_WIDTH_ERROR = 197000
           /\ last.outcome.row[1].COPLANARITY_MAX = 394000
           /\ last.outcome.row[1].COPLANARITY_MIN = 0
           /\ last.outcome.row[1].BALL_QUALITY = 75

\* the scenario's target has been resolved and its row derived
C23_Witness ==
    /\ cache = <<EntryCP>>
    /\ last.op = "process"
    /\ last.outcome.target = TargetCP
    /\ last.outcome.row # <<>>
    /\ result_csv[1].data # <<>>

\* C24: a target that resolves to no record, or whose matched record lacks a
\* field the deriver needs, leaves the output rows unchanged, and the loop
\* goes on with the remaining identifiers.
C24_FailedRowSkipped ==
    [][ (/\ last'.op = "process"
         /\ \/ last'.outcome.kind = "not found"
            \/ /\ last'.outcome.found # <<>>
               /\ ~Complete(last'.outcome.found[1].table))
        => /\ result_csv' = result_csv
           /\ pc' = "process_ids"
           /\ ids_to_search' = Tail(ids_to_search) ]_vars

\* a matched record without the pitch made the deriver fail while other
\* identifiers of the batch were still to come
C24_Witness ==
    /\ last.op = "process"
    /\ last.outcome.kind = "not computed"
    /\ ids_to_search # <<>>

\* C26: the identifier column of the row produced for a query equals the
\* target identifier that was resolved.
C26_RowKeepsTarget ==
    (last.op = "process" /\ last.outcome.kind = "filled")
        => last.outcome.row[1].BGA_PKG_TYPE = last.outcome.target

\* C25: the loop normalizes an entry of the source directory and invokes the
\* extraction capability for it only if the entry has the suffix .jpg or
\* .jpeg in any case, is not a directory and is not the source path of a
\* record of the catalog; for every other entry nothing is extracted, staged
\* or changed in the catalog.
C25_OnlyEligibleEntries ==
    [][ /\ last'.op \in {"stage", "image"}
            => /\ Lower(Suffix(last'.file)) \in {".jpg", ".jpeg"}
               /\ last'.file # "undefined"
               /\ last'.file \notin Paths(cache)
        /\ last'.op \in {"skip", "stage_skip"}
            => /\ cache' = cache
               /\ staging' = staging
               /\ extracted' = extracted ]_vars

\* the scanned rows of an image, bottom row last
Scanned(image) == (start_search_y(Len(image.rows)) + 1)..(Len(image.rows) - 1)

\* more than 80 % of the pixels of row y are brighter than 150
WhiteRowAt(image, y) ==
    100 * Cardinality({i \in 1..image.width : image.rows[y + 1][i] > 150}) > 80 * image.width

\* rows a..b are a maximal run of white rows among the scanned rows
MaximalRun(image, a, b) ==
    /\ a \in Scanned(image) /\ b \in Scanned(image) /\ a <= b
    /\ \A y \in a..b : WhiteRowAt(image, y)
    /\ (a - 1 \in Scanned(image) => ~WhiteRowAt(image, a - 1))
    /\ (b + 1 \in Scanned(image) => ~WhiteRowAt(image, b + 1))

\* C27: the detector records exactly one band for every maximal run of at
\* least 3 white rows among the scanned rows, at the top row of the run: the
\* row below a non-white row, or the search boundary when the scan ends
\* inside the run; a shorter run records nothing; a row is white only when
\* strictly more than 80 % of its pixels are brighter than the threshold.
C27_OneBandPerLongRun ==
    last.op = "crop" =>
        LET image == last.outcome.image
            bands == last.outcome.bands
            tops == {a \in Scanned(image) :
                        \E b \in Scanned(image) : MaximalRun(image, a, b) /\ b - a + 1 >= 3}
        IN  /\ Len(bands) = Cardinality(tops)
            /\ \A a \in tops : \E i \in DOMAIN bands : bands[i] = a
            /\ \A i \in DOMAIN bands :
                 \/ bands[i] = start_search_y(Len(image.rows)) + 1
                 \/ ~WhiteRowAt(image, bands[i] - 1)

\* a band at the search boundary above a band that ended at a non-white
\* row, in an image with a white run of one row and rows that are white in
\* exactly 80 % of their pixels
C27_Witness ==
    /\ last.op = "crop"
    /\ Len(last.outcome.bands) = 2
    /\ last.outcome.bands[2] = start_search_y(Len(last.outcome.image.rows)) + 1
    /\ \E y \in Scanned(last.outcome.image) : MaximalRun(last.outcome.image, y, y)
    /\ \E y \in Scanned(last.outcome.image) :
         5 * Cardinality({i \in 1..last.outcome.image.width :
                            last.outcome.image.rows[y + 1][i] > 150})
            = 4 * last.outcome.image.width

\* C28: the staging artifacts a run deletes are those of images it
\* quarantined, and never that of an image whose record is in the catalog.
C28_DeletesOnlyQuarantined ==
    [][ /\ (staging \ staging') \subseteq Range(files_to_move)
        /\ (staging \ staging') \cap Paths(cache) = {} ]_vars

\* C29: for every catalog and target, the similarity step of the resolver
\* (GeminiFlash.__fuzz_match_id) finds the record that
\* SimilarityMatcher.find_best_match finds: a match by the score of the
\* stripped identifiers is accepted as well as one by the raw score.
C29_ResolverMatchesAsMatcher ==
    last.op = "match" =>
        LET fuzzy == IF cache # <<>> THEN fuzz_match_id(cache, last.outcome.target)
                     ELSE Returned(<<>>)
        IN  /\ ~fuzzy.raised
            /\ fuzzy.found = last.outcome.found

\* C30: the normalizer applied to its own output returns that output
\* unchanged.
C30_CleanIdIdempotent ==
    last.op = "clean_again" => last.outcome.result = last.outcome.id

====
